---- MODULE Spec2Model ----
(***************************************************************************)
(* Model of livingbody/People_Daily_Toolkit.                               *)
(*   rmrb_down.py     : get_page_count, get_pdf_urls, download_pdfs,       *)
(*                      merge_pdfs, clean_temp_files, download_rmrb_pdf    *)
(*   note_for_rmrb.py : read_pdf, extract_info, main                       *)
(* Strings are sequences of one-character strings, so that startswith,     *)
(* endswith, `in`, split and re.search are computed as Python computes     *)
(* them.  The network, the HTML parser, the PDF library and the file       *)
(* system are the environment: each call into them draws its outcome from  *)
(* the outcomes that call can have.                                        *)
(***************************************************************************)
EXTENDS Integers, Sequences, FiniteSets, TLC

VARIABLES
    pc,                \* position of download_rmrb_pdf / get_page_count
    date_str,          \* 'YYYY-MM-DD'
    base_url,
    catalog,           \* response of the catalog fetch: [outcome, anchors]
    page_count,        \* value returned by get_page_count
    i,                 \* loop index of the loop at pc
    pdf_urls,          \* list built by get_pdf_urls
    pageLog,           \* the pdf_href found for each entry of pdf_urls
    tempDir,           \* temp_pdfs_<date> exists
    dirCreated,        \* this run's os.makedirs created it
    tempFiles,         \* file index -> content, the files in temp_pdfs_<date>
    downloaded_files,  \* list built by download_pdfs (file indices)
    dlLog,             \* what each download produced
    pdf_writer,        \* pages added to the PdfWriter
    readLog,           \* what each PdfReader pass of merge_pdfs produced
    outFile,           \* storage/downloads/rmrb/rmrb_<date>.pdf
    merged,            \* value returned by merge_pdfs
    rmLog,             \* outcome of every os.remove / os.rmdir
    result,            \* how download_rmrb_pdf ended
    npc,               \* position of note_for_rmrb.main
    stream,            \* fragments the LLM stream has delivered
    mycontent,         \* accumulator of extract_info
    printed,           \* text extract_info printed live
    fault,             \* exception in flight in main's try block
    report,            \* content of the report file
    runEnd             \* how main ended

varsCat  == <<pc, catalog, page_count>>
varsLoc  == <<date_str, base_url, i, pdf_urls, pageLog>>
varsDl   == <<tempDir, dirCreated, tempFiles, downloaded_files, dlLog>>
varsMrg  == <<pdf_writer, readLog, outFile, merged, rmLog, result>>
varsNote == <<npc, stream, mycontent, printed, fault, report, runEnd>>
vars     == <<varsCat, varsLoc, varsDl, varsMrg, varsNote>>

(***************************************************************************)
(* Bounds of the model.                                                    *)
(***************************************************************************)
MaxAnchors   == 3   \* anchors on a catalog page
MaxUrls      == 3   \* pages of one date that carry a PDF link
MaxPdfPages  == 2   \* pages of one downloaded PDF
MaxFragments == 3   \* fragments one LLM stream delivers

(***************************************************************************)
(* Python string primitives.                                               *)
(***************************************************************************)
Digits == {"0", "1", "2", "3", "4", "5", "6", "7", "8", "9"}

DigitVal(c) ==
    CASE c = "0" -> 0 [] c = "1" -> 1 [] c = "2" -> 2 [] c = "3" -> 3
      [] c = "4" -> 4 [] c = "5" -> 5 [] c = "6" -> 6 [] c = "7" -> 7
      [] c = "8" -> 8 [] c = "9" -> 9

\* s[p:].startswith(sub), p 1-based
StartsWithAt(s, sub, p) ==
    /\ p >= 1
    /\ p + Len(sub) - 1 <= Len(s)
    /\ \A k \in 1..Len(sub) : s[p + k - 1] = sub[k]

StartsWith(s, sub) == StartsWithAt(s, sub, 1)

EndsWith(s, sub) ==
    Len(sub) <= Len(s) /\ StartsWithAt(s, sub, Len(s) - Len(sub) + 1)

\* sub in s
Contains(s, sub) == \E p \in 1..(Len(s) + 1) : StartsWithAt(s, sub, p)

\* int(digits)
RECURSIVE ParseInt(_)
ParseInt(ds) ==
    IF ds = <<>> THEN 0
    ELSE 10 * ParseInt(SubSeq(ds, 1, Len(ds) - 1)) + DigitVal(ds[Len(ds)])

\* first position from p on that holds no digit
RECURSIVE DigitRunEnd(_, _)
DigitRunEnd(s, p) ==
    IF p <= Len(s) /\ s[p] \in Digits THEN DigitRunEnd(s, p + 1) ELSE p

S_node == <<"n", "o", "d", "e", "_">>
S_html == <<".", "h", "t", "m", "l">>
S_pdf  == <<".", "p", "d", "f">>
S_http == <<"h", "t", "t", "p">>

\* r'node_(\d+)\.html' matches at position p
NodeMatchAt(s, p) ==
    /\ StartsWithAt(s, S_node, p)
    /\ DigitRunEnd(s, p + 5) > p + 5
    /\ StartsWithAt(s, S_html, DigitRunEnd(s, p + 5))

\* re.search(r'node_(\d+)\.html', s): group(1) of the leftmost match, or
\* <<>> when there is no match (a match has at least one digit)
ReSearchNode(s) ==
    IF \E p \in 1..Len(s) : NodeMatchAt(s, p)
    THEN LET p == CHOOSE q \in 1..Len(s) :
                     NodeMatchAt(s, q) /\ \A r \in 1..(q - 1) : ~NodeMatchAt(s, r)
         IN  SubSeq(s, p + 5, DigitRunEnd(s, p + 5) - 1)
    ELSE <<>>

Max2_Last(a, b) == b

Max2(a, b) == IF a >= b THEN a ELSE b

(***************************************************************************)
(* get_page_count                                                          *)
(***************************************************************************)
FallbackPages == 8

\* href=lambda x: x and 'node_' in x and '.html' in x   (<<>> is no href)
IsPageLink(href) ==
    href # <<>> /\ Contains(href, S_node) /\ Contains(href, S_html)

\* the for loop: max_page after the anchors k..Len(anchors)
RECURSIVE MaxPageLoop(_, _, _)
MaxPageLoop(anchors, k, max_page) ==
    IF k > Len(anchors) THEN max_page
    ELSE LET href == anchors[k].href
             grp  == ReSearchNode(href)
         IN  IF IsPageLink(href) /\ grp # <<>>
             THEN MaxPageLoop(anchors, k + 1, Max2(max_page, ParseInt(grp)))
             ELSE MaxPageLoop(anchors, k + 1, max_page)

get_page_count_ParseUncaught(cat) ==
    IF cat.outcome \in {"ok", "parse_error"} THEN MaxPageLoop(cat.anchors, 1, 0)
    ELSE FallbackPages

get_page_count(cat) ==
    IF cat.outcome = "ok" THEN MaxPageLoop(cat.anchors, 1, 0)
    ELSE FallbackPages

(***************************************************************************)
(* Catalog pages the environment can serve.  idx is what the anchor is: the*)
(* index k of a page-index link node_<k>.html, 0 for any other anchor.     *)
(***************************************************************************)
H_node01 == <<"n", "o", "d", "e", "_", "0", "1", ".", "h", "t", "m", "l">>
H_node03 == <<"n", "o", "d", "e", "_", "0", "3", ".", "h", "t", "m", "l">>
H_node05 == <<"n", "o", "d", "e", "_", "0", "5", ".", "h", "t", "m", "l">>
H_node12 == <<"n", "o", "d", "e", "_", "1", "2", ".", "h", "t", "m", "l">>
H_nodex  == <<"n", "o", "d", "e", "_", "x", ".", "h", "t", "m", "l">>
H_index  == <<"i", "n", "d", "e", "x", ".", "h", "t", "m", "l">>

CatalogAnchors ==
    { [href |-> H_node01, idx |-> 1], [href |-> H_node03, idx |-> 3],
      [href |-> H_node05, idx |-> 5], [href |-> H_node12, idx |-> 12],
      [href |-> H_nodex,  idx |-> 0], [href |-> H_index,  idx |-> 0],
      [href |-> <<>>,     idx |-> 0] }

SeqsUpTo(S, n) == UNION { [1..m -> S] : m \in 0..n }

CatalogOutcomes == {"ok", "fetch_error", "parse_error"}

Catalogs ==
    { [outcome |-> o, anchors |-> a] :
        o \in CatalogOutcomes, a \in SeqsUpTo(CatalogAnchors, MaxAnchors) }

None == "None"

IdleLoc  == date_str = <<>> /\ base_url = <<>> /\ i = 0 /\ pdf_urls = <<>>
            /\ pageLog = <<>>
IdleDl   == tempDir = FALSE /\ dirCreated = FALSE /\ tempFiles = {}
            /\ downloaded_files = <<>> /\ dlLog = <<>>
IdleMrg  == pdf_writer = <<>> /\ readLog = <<>>
            /\ outFile = [exists |-> FALSE, pages |-> <<>>]
            /\ merged = None /\ rmLog = <<>>
            /\ result = [kind |-> "running", path |-> <<>>]
IdleNote == npc = "idle" /\ stream = <<>> /\ mycontent = <<>> /\ printed = <<>>
            /\ fault = [kind |-> "none", at |-> "none", after |-> 0]
            /\ report = [exists |-> FALSE, text |-> <<>>]
            /\ runEnd = "running"

\* get_page_count(url) called on its own
InitCatalog ==
    /\ pc = "get_page_count"
    /\ catalog \in Catalogs
    /\ page_count = -1
    /\ IdleLoc /\ IdleDl /\ IdleMrg /\ IdleNote

CallGetPageCount ==
    /\ pc = "get_page_count"
    /\ page_count' = get_page_count(catalog)
    /\ pc' = "returned"
    /\ UNCHANGED <<catalog, varsLoc, varsDl, varsMrg, varsNote>>

NextCatalog == CallGetPageCount

SpecCatalog == InitCatalog /\ [][NextCatalog]_vars

(***************************************************************************)
(* get_pdf_urls                                                            *)
(***************************************************************************)
\* s.split('-')
RECURSIVE SplitFrom(_, _, _)
SplitFrom(s, p, cur) ==
    IF p > Len(s) THEN <<cur>>
    ELSE IF s[p] = "-" THEN <<cur>> \o SplitFrom(s, p + 1, <<>>)
    ELSE SplitFrom(s, p + 1, Append(cur, s[p]))

Split(s) == SplitFrom(s, 1, <<>>)

S_layout == <<"/", "r", "m", "r", "b", "/", "p", "c", "/", "l", "a", "y", "o", "u", "t", "/">>

\* f"{base_url}/rmrb/pc/layout/{year}{month}/{day}/"
LayoutDir(base, date) ==
    LET parts == Split(date)
    IN  base \o S_layout \o parts[1] \o parts[2] \o <<"/">> \o parts[3] \o <<"/">>

\* soup.find('a', href=lambda x: x and x.endswith('.pdf')): the href of the
\* first such anchor, <<>> when there is none
RECURSIVE FindPdfLink(_, _)
FindPdfLink(anchors, k) ==
    IF k > Len(anchors) THEN <<>>
    ELSE IF anchors[k] # <<>> /\ EndsWith(anchors[k], S_pdf) THEN anchors[k]
    ELSE FindPdfLink(anchors, k + 1)

\* the normalisation of pdf_href
NormalizeHref(pdf_href, base, date) ==
    IF ~StartsWith(pdf_href, S_http)
    THEN IF StartsWith(pdf_href, <<"/">>)
         THEN base \o pdf_href
         ELSE LayoutDir(base, date) \o pdf_href
    ELSE pdf_href

H_foo   == <<"f", "o", "o", ".", "p", "d", "f">>
H_abs   == <<"/", "a", "b", "s", "/", "x", ".", "p", "d", "f">>
H_https == <<"h", "t", "t", "p", "s", ":", "/", "/", "o", "/", "x", ".", "p", "d", "f">>
H_httpc == <<"h", "t", "t", "p", ":", "/", "/", "o", "/", "x", ".", "p", "d", "f">>
H_httpx == <<"h", "t", "t", "p", "x", ".", "p", "d", "f">>
H_ftp   == <<"f", "t", "p", ":", "/", "/", "o", "/", "x", ".", "p", "d", "f">>

\* hrefs a page can carry; H_index is an anchor that is no PDF link
AllHrefs  == {H_foo, H_abs, H_https, H_httpc, H_httpx, H_ftp, H_index}
FewHrefs  == {H_foo, H_index}

MaxPageAnchors == 2

D_0101 == <<"2", "0", "2", "5", "-", "0", "1", "-", "0", "1">>
D_0929 == <<"2", "0", "2", "5", "-", "0", "9", "-", "2", "9">>
Dates  == {D_0101, D_0929}
B_site == <<"B">>

\* datetime.now().strftime('%Y-%m-%d') on the day of the run
Today == D_0101

H_node02 == <<"n", "o", "d", "e", "_", "0", "2", ".", "h", "t", "m", "l">>

\* catalog responses of the pipeline runs: page counts 8, 0, 1, 2
FewCatalogs ==
    { [outcome |-> "fetch_error", anchors |-> <<>>],
      [outcome |-> "ok", anchors |-> <<>>],
      [outcome |-> "ok", anchors |-> <<[href |-> H_node01, idx |-> 1]>>],
      [outcome |-> "ok", anchors |-> <<[href |-> H_node02, idx |-> 2]>>] }

NoCatalog == [outcome |-> "none", anchors |-> <<>>]

\* entry of get_pdf_urls up to the for loop
EnterGetPdfUrls ==
    /\ pc = "get_pdf_urls"
    /\ \E c \in FewCatalogs : page_count' = get_page_count(c)
    /\ pdf_urls' = <<>>
    /\ pageLog' = <<>>
    /\ i' = 1
    /\ pc' = "locate"
    /\ UNCHANGED <<catalog, date_str, base_url, varsDl, varsMrg, varsNote>>

\* one iteration of the for loop over the pages; the page's anchors come from Hs
LocatePage(Hs) ==
    /\ pc = "locate"
    /\ i <= page_count
    /\ \/ \* requests.get or the parser raises: caught, page skipped
          UNCHANGED <<pdf_urls, pageLog>>
       \/ \E anchors \in SeqsUpTo(Hs, MaxPageAnchors) :
            LET pdf_href == FindPdfLink(anchors, 1)
            IN  IF pdf_href # <<>>
                THEN /\ Len(pdf_urls) < MaxUrls
                     /\ pdf_urls' = Append(pdf_urls,
                                      NormalizeHref(pdf_href, base_url, date_str))
                     /\ pageLog' = Append(pageLog, [href |-> pdf_href])
                ELSE UNCHANGED <<pdf_urls, pageLog>>
    /\ i' = i + 1
    /\ UNCHANGED <<pc, catalog, page_count, date_str, base_url, varsDl, varsMrg,
                   varsNote>>

\* return pdf_urls
ReturnPdfUrls ==
    /\ pc = "locate"
    /\ i > page_count
    /\ pc' = "got_urls"
    /\ i' = 0
    /\ UNCHANGED <<catalog, page_count, date_str, base_url, pdf_urls, pageLog,
                   varsDl, varsMrg, varsNote>>

\* get_pdf_urls(base_url, date_str) called on its own
InitLinks ==
    /\ pc = "get_pdf_urls"
    /\ catalog = NoCatalog
    /\ page_count = -1
    /\ date_str \in Dates
    /\ base_url = B_site
    /\ i = 0 /\ pdf_urls = <<>> /\ pageLog = <<>>
    /\ IdleDl /\ IdleMrg /\ IdleNote

NextLinks ==
    \/ EnterGetPdfUrls
    \/ LocatePage(AllHrefs)
    \/ ReturnPdfUrls

SpecLinks == InitLinks /\ [][NextLinks]_vars

(***************************************************************************)
(* download_rmrb_pdf: download_pdfs, merge_pdfs, clean_temp_files          *)
(* A file of temp_pdfs_<date> is [idx, src, np]: rmrb_<date>_<idx>.pdf,    *)
(* holding np pages of the PDF behind the src-th URL of pdf_urls (src 0: a *)
(* file an earlier run left behind).  A page is <<src, n>>.                *)
(***************************************************************************)
StaleIdx == MaxUrls + 1   \* no download of the run writes this file

TempFile(idx, src, np) == [idx |-> idx, src |-> src, np |-> np]

\* what temp_pdfs_<date> can hold when the run starts
InitialTempDirs ==
    { [exists |-> FALSE, files |-> {}],
      [exists |-> TRUE,  files |-> {}],
      [exists |-> TRUE,  files |-> {TempFile(1, 0, 1)}],
      [exists |-> TRUE,  files |-> {TempFile(StaleIdx, 0, 1)}] }

S_out == <<"s", "t", "o", "r", "a", "g", "e", "/", "d", "o", "w", "n", "l", "o", "a", "d", "s", "/", "r", "m", "r", "b", "/", "r", "m", "r", "b", "_">>

OutputFile_NoDate(date) == S_out \o S_pdf

\* f"storage/downloads/rmrb/rmrb_{date_str}.pdf"
OutputFile(date) == S_out \o date \o S_pdf

RetNone   == [kind |-> "None",    path |-> <<>>]
Raised    == [kind |-> "raised",  path |-> <<>>]
RetPath(p) == [kind |-> "path",   path |-> p]

\* download_rmrb_pdf(date_str, base_url) is called
Init ==
    /\ pc = "download_rmrb_pdf"
    /\ catalog = NoCatalog
    /\ page_count = -1
    /\ date_str \in {Today, <<>>}
    /\ base_url = B_site
    /\ i = 0 /\ pdf_urls = <<>> /\ pageLog = <<>>
    /\ \E d \in InitialTempDirs : tempDir = d.exists /\ tempFiles = d.files
    /\ dirCreated = FALSE
    /\ downloaded_files = <<>> /\ dlLog = <<>>
    /\ IdleMrg /\ IdleNote

\* if date_str is None: date_str = datetime.now().strftime('%Y-%m-%d')
DefaultDate ==
    /\ pc = "download_rmrb_pdf"
    /\ IF date_str = <<>>
       THEN date_str' = Today
       ELSE date_str' = date_str
    /\ pc' = "get_pdf_urls"
    /\ UNCHANGED <<catalog, page_count, base_url, i, pdf_urls, pageLog, varsDl,
                   varsMrg, varsNote>>

\* if not pdf_urls: return None  -- else download_pdfs is entered
CheckUrls ==
    /\ pc = "got_urls"
    /\ IF pdf_urls = <<>>
       THEN pc' = "done" /\ result' = RetNone
       ELSE pc' = "makedirs" /\ result' = result
    /\ UNCHANGED <<catalog, page_count, varsLoc, varsDl, pdf_writer, readLog,
                   outFile, merged, rmLog, varsNote>>

\* downloaded_files = []; if not os.path.exists(temp_dir): os.makedirs(temp_dir)
MakeTempDir ==
    /\ pc = "makedirs"
    /\ downloaded_files' = <<>>
    /\ \/ /\ tempDir
          /\ pc' = "download" /\ i' = 1
          /\ UNCHANGED <<tempDir, dirCreated, result>>
       \/ /\ ~tempDir
          /\ tempDir' = TRUE /\ dirCreated' = TRUE
          /\ pc' = "download" /\ i' = 1
          /\ UNCHANGED result
       \/ \* os.makedirs raises: nothing catches it
          /\ ~tempDir
          /\ pc' = "done" /\ result' = Raised
          /\ UNCHANGED <<tempDir, dirCreated, i>>
    /\ UNCHANGED <<catalog, page_count, date_str, base_url, pdf_urls, pageLog,
                   tempFiles, dlLog, pdf_writer, readLog, outFile, merged, rmLog,
                   varsNote>>

PutFile(files, f) == { g \in files : g.idx # f.idx } \cup {f}

\* one iteration of the download loop: URL number i goes to file number i
\* (enumerate's i + 1)
DownloadOne ==
    /\ pc = "download"
    /\ i <= Len(pdf_urls)
    /\ \/ \* requests.get raises: nothing is written
          /\ dlLog' = Append(dlLog, [status |-> "get_failed", np |-> 0])
          /\ UNCHANGED <<tempFiles, downloaded_files>>
       \/ \* f.write raises after open has created or truncated the file
          /\ dlLog' = Append(dlLog, [status |-> "write_failed", np |-> 0])
          /\ tempFiles' = PutFile(tempFiles, TempFile(i, i, 0))
          /\ UNCHANGED downloaded_files
       \/ \E np \in 1..MaxPdfPages :
            /\ dlLog' = Append(dlLog, [status |-> "ok", np |-> np])
            /\ tempFiles' = PutFile(tempFiles, TempFile(i, i, np))
            /\ downloaded_files' = Append(downloaded_files, i)
    /\ i' = i + 1
    /\ UNCHANGED <<pc, catalog, page_count, date_str, base_url, pdf_urls, pageLog,
                   tempDir, dirCreated, varsMrg, varsNote>>

\* return downloaded_files; if not downloaded_files: return None
CheckDownloads ==
    /\ pc = "download"
    /\ i > Len(pdf_urls)
    /\ IF downloaded_files = <<>>
       THEN pc' = "done" /\ result' = RetNone /\ i' = 0
       ELSE pc' = "merge" /\ result' = result /\ i' = 1
    /\ UNCHANGED <<catalog, page_count, date_str, base_url, pdf_urls, pageLog,
                   varsDl, pdf_writer, readLog, outFile, merged, rmLog, varsNote>>

FileAt(files, idx) == CHOOSE f \in files : f.idx = idx

PagesOf(f, n) == [k \in 1..n |-> <<f.src, k>>]

AddPages_Prepend(writer, f, n) == PagesOf(f, n) \o writer

\* for page_num in range(n): pdf_writer.add_page(pdf_reader.pages[page_num])
AddPages(writer, f, n) == writer \o PagesOf(f, n)

\* the pages in the writer after an exception at page n + 1 of file f
AddPagesUntilError(writer, f, n) == writer \o PagesOf(f, n)

\* one iteration of the loop over pdf_files: PdfReader, then add_page for each
\* page; an exception at the open or at a page ends this file only, and the
\* pages added before it stay in the writer
MergeReadOne ==
    /\ pc = "merge"
    /\ i <= Len(downloaded_files)
    /\ LET f == FileAt(tempFiles, downloaded_files[i])
       IN  \/ /\ pdf_writer' = AddPages(pdf_writer, f, f.np)
              /\ readLog' = Append(readLog, [file |-> f.idx, read |-> f.np, ok |-> TRUE])
           \/ \E n \in 0..(f.np - 1) :
                /\ pdf_writer' = AddPagesUntilError(pdf_writer, f, n)
                /\ readLog' = Append(readLog, [file |-> f.idx, read |-> n, ok |-> FALSE])
    /\ i' = i + 1
    /\ UNCHANGED <<pc, catalog, page_count, date_str, base_url, pdf_urls, pageLog,
                   varsDl, outFile, merged, rmLog, result, varsNote>>

\* with open(output_file, 'wb') as out: pdf_writer.write(out); return True
\* -- except Exception: return False
MergeWrite ==
    /\ pc = "merge"
    /\ i > Len(downloaded_files)
    /\ \/ /\ outFile' = [exists |-> TRUE, pages |-> pdf_writer]
          /\ merged' = "True"
       \/ \* open raises: no file
          /\ outFile' = outFile
          /\ merged' = "False"
       \/ \* pdf_writer.write raises: a truncated file
          /\ outFile' = [exists |-> TRUE, pages |-> <<>>]
          /\ merged' = "False"
    /\ pc' = "clean"
    /\ i' = 1
    /\ UNCHANGED <<catalog, page_count, date_str, base_url, pdf_urls, pageLog,
                   varsDl, pdf_writer, readLog, rmLog, result, varsNote>>

MergeOutcome_AlwaysPath(m, date) == RetPath(OutputFile(date))

\* if merge_pdfs(...): clean; return output_file -- else: clean; return None
MergeOutcome(m, date) ==
    IF m = "True" THEN RetPath(OutputFile(date)) ELSE RetNone

\* os.remove(file)
RemoveFile(files, idx) == { f \in files : f.idx # idx }

\* clean_temp_files: one os.remove(file)
CleanOne ==
    /\ pc = "clean"
    /\ i <= Len(downloaded_files)
    /\ \/ /\ tempFiles' = RemoveFile(tempFiles, downloaded_files[i])
          /\ rmLog' = Append(rmLog, "ok")
       \/ /\ tempFiles' = tempFiles
          /\ rmLog' = Append(rmLog, "failed")
    /\ i' = i + 1
    /\ UNCHANGED <<pc, catalog, page_count, date_str, base_url, pdf_urls, pageLog,
                   tempDir, dirCreated, downloaded_files, dlLog, pdf_writer,
                   readLog, outFile, merged, result, varsNote>>

\* clean_temp_files: if temp_files: os.rmdir(dirname(temp_files[0])) -- and the
\* return of download_rmrb_pdf
CleanDir ==
    /\ pc = "clean"
    /\ i > Len(downloaded_files)
    /\ IF downloaded_files # <<>>
       THEN \/ /\ tempFiles = {}
               /\ tempDir' = FALSE
               /\ rmLog' = Append(rmLog, "ok")
            \/ \* os.rmdir raises (always so on a directory that is not empty)
               /\ tempDir' = tempDir
               /\ rmLog' = Append(rmLog, "failed")
       ELSE UNCHANGED <<tempDir, rmLog>>
    /\ result' = MergeOutcome(merged, date_str)
    /\ pc' = "done"
    /\ i' = 0
    /\ UNCHANGED <<catalog, page_count, date_str, base_url, pdf_urls, pageLog,
                   dirCreated, tempFiles, downloaded_files, dlLog, pdf_writer,
                   readLog, outFile, merged, varsNote>>

Next ==
    \/ DefaultDate
    \/ EnterGetPdfUrls
    \/ LocatePage(FewHrefs)
    \/ ReturnPdfUrls
    \/ CheckUrls
    \/ MakeTempDir
    \/ DownloadOne
    \/ CheckDownloads
    \/ MergeReadOne
    \/ MergeWrite
    \/ CleanOne
    \/ CleanDir

Spec == Init /\ [][Next]_vars

(***************************************************************************)
(* note_for_rmrb.py: main, extract_info                                    *)
(* A fragment of the LLM stream is [choices, reasoning, content]: choices  *)
(* says whether chunk.choices is non-empty; reasoning and content are the  *)
(* texts of choices[0].delta, <<>> for a missing, None or empty one.       *)
(***************************************************************************)
T_reason == <<"r", "A">>
T_hello  == <<"H", "i">>
T_world  == <<" ", "w">>

Fragments ==
    { [choices |-> FALSE, reasoning |-> <<>>, content |-> <<>>] }
    \cup { [choices |-> TRUE, reasoning |-> r, content |-> c] :
             r \in {<<>>, T_reason}, c \in {<<>>, T_hello, T_world} }

\* classes of exception as main's except clauses tell them apart
ExcKinds == {"FileNotFoundError", "Exception"}

\* what the OpenAI client raises: an error of the API or of the transport
ClientExcKinds == {"Exception"}

NoFault == [kind |-> "none", at |-> "none", after |-> 0]
Fault(kind, at, n) == [kind |-> kind, at |-> at, after |-> n]

NoReport  == [exists |-> FALSE, text |-> <<>>]
OldReport == [exists |-> TRUE,  text |-> <<"old">>]

\* main() is called; the report of an earlier run of the day may exist
InitNote ==
    /\ pc = "idle" /\ catalog = NoCatalog /\ page_count = -1
    /\ IdleLoc /\ IdleDl /\ IdleMrg
    /\ npc = "read_pdf"
    /\ stream = <<>> /\ mycontent = <<>> /\ printed = <<>>
    /\ fault = NoFault
    /\ report \in {NoReport, OldReport}
    /\ runEnd = "running"

varsDown == <<varsCat, varsLoc, varsDl, varsMrg>>

\* content = read_pdf(rmrb_pdf_file)
ReadPdf ==
    /\ npc = "read_pdf"
    /\ \/ npc' = "create" /\ fault' = fault
       \/ \E k \in ExcKinds :
            npc' = "except" /\ fault' = Fault(k, "read_pdf", 0)
    /\ UNCHANGED <<varsDown, stream, mycontent, printed, report, runEnd>>

\* client.chat.completions.create(..., stream=True); mycontent = ""
CreateStream ==
    /\ npc = "create"
    /\ \/ npc' = "stream" /\ fault' = fault /\ mycontent' = <<>>
       \/ \E k \in ClientExcKinds :
            /\ npc' = "except" /\ fault' = Fault(k, "create", 0)
            /\ mycontent' = mycontent
    /\ UNCHANGED <<varsDown, stream, printed, report, runEnd>>

\* the body of `for chunk in chat_completion`: the text printed and the
\* accumulator after the chunk
PrintedAfter(out, chunk) ==
    IF ~chunk.choices THEN out
    ELSE IF chunk.reasoning # <<>> THEN out \o chunk.reasoning
    ELSE IF chunk.content # <<>> THEN out \o chunk.content
    ELSE out

Accumulate(acc, chunk) ==
    IF ~chunk.choices THEN acc
    ELSE IF chunk.reasoning # <<>> THEN acc
    ELSE IF chunk.content # <<>> THEN acc \o chunk.content
    ELSE acc

\* the stream delivers one more fragment
StreamFragment ==
    /\ npc = "stream"
    /\ Len(stream) < MaxFragments
    /\ \E chunk \in Fragments :
         /\ stream' = Append(stream, chunk)
         /\ printed' = PrintedAfter(printed, chunk)
         /\ mycontent' = Accumulate(mycontent, chunk)
    /\ UNCHANGED <<varsDown, npc, fault, report, runEnd>>

\* the stream ends: return mycontent
StreamEnd ==
    /\ npc = "stream"
    /\ npc' = "write_report"
    /\ UNCHANGED <<varsDown, stream, mycontent, printed, fault, report, runEnd>>

\* the stream raises: extract_info has no try, the exception reaches main
StreamRaise ==
    /\ npc = "stream"
    /\ \E k \in ClientExcKinds : fault' = Fault(k, "stream", Len(stream))
    /\ npc' = "except"
    /\ UNCHANGED <<varsDown, stream, mycontent, printed, report, runEnd>>

\* with open(output_filename, "w") as file: print(markdown_note, file=file)
WriteReport ==
    /\ npc = "write_report"
    /\ \/ /\ report' = [exists |-> TRUE, text |-> mycontent \o <<"\n">>]
          /\ npc' = "end" /\ runEnd' = "saved" /\ fault' = fault
       \/ \* open raises: the file is as it was
          \E k \in ExcKinds :
            /\ npc' = "except" /\ fault' = Fault(k, "write_report", 0)
            /\ UNCHANGED <<report, runEnd>>
       \/ \* print raises after open has truncated the file
          /\ npc' = "except" /\ fault' = Fault("Exception", "write_report", 0)
          /\ report' = [exists |-> TRUE, text |-> <<>>]
          /\ UNCHANGED runEnd
    /\ UNCHANGED <<varsDown, stream, mycontent, printed>>

HandlerOf_NoGeneric(kind) ==
    IF kind = "FileNotFoundError" THEN "missing_file_message" ELSE "unhandled"

\* the except clauses of main: except FileNotFoundError, then except Exception
HandlerOf(kind) ==
    IF kind = "FileNotFoundError" THEN "missing_file_message"
    ELSE "error_message"

HandleException ==
    /\ npc = "except"
    /\ runEnd' = HandlerOf(fault.kind)
    /\ npc' = "end"
    /\ UNCHANGED <<varsDown, stream, mycontent, printed, fault, report>>

NextNote ==
    \/ ReadPdf
    \/ CreateStream
    \/ StreamFragment
    \/ StreamEnd
    \/ StreamRaise
    \/ WriteReport
    \/ HandleException

SpecNote == InitNote /\ [][NextNote]_vars

\* the set S of page-index links the catalog page carries
PageIndexSet(cat) ==
    { cat.anchors[k].idx : k \in 1..Len(cat.anchors) } \ {0}

SetMax(S) == IF S = {} THEN 0 ELSE CHOOSE m \in S : \A n \in S : n <= m

\* C6: a catalog fetch that raises, or whose HTML the parser rejects, resolves
\* to the fallback page count 8.
C6_Fallback ==
    (pc = "returned" /\ catalog.outcome \in {"fetch_error", "parse_error"})
        => page_count = 8

C6_Witness ==
    /\ pc = "returned" /\ catalog.outcome = "parse_error"
    /\ Len(catalog.anchors) = 2 /\ page_count = 8

\* C7: for a fetched catalog page the page count is the maximum page index
\* among its page-index links, not the number of links.
C7_MaxIndex ==
    (pc = "returned" /\ catalog.outcome = "ok" /\ PageIndexSet(catalog) # {})
        => page_count = SetMax(PageIndexSet(catalog))

C7_Witness ==
    /\ pc = "returned" /\ catalog.outcome = "ok"
    /\ PageIndexSet(catalog) = {1, 3, 5} /\ page_count = 5

(***************************************************************************)
(* Properties of get_pdf_urls (SpecLinks)                                  *)
(***************************************************************************)
\* an href with a scheme: letters, then "://"
SchemeChars == {"h", "t", "p", "s", "f"}

IsAbsoluteUrl(h) ==
    \E p \in 2..Len(h) :
        /\ StartsWithAt(h, <<":", "/", "/">>, p)
        /\ \A k \in 1..(p - 1) : h[k] \in SchemeChars

\* <base>/rmrb/pc/layout/<YYYYMM>/<DD>/ for a date 'YYYY-MM-DD'
PageDirectory(base, date) ==
    base \o S_layout \o SubSeq(date, 1, 4) \o SubSeq(date, 6, 7) \o <<"/">>
         \o SubSeq(date, 9, 10) \o <<"/">>

ExpectedUrl(h, base, date) ==
    IF IsAbsoluteUrl(h) THEN h
    ELSE IF h[1] = "/" THEN base \o h
    ELSE PageDirectory(base, date) \o h

\* C8: every PDF href found is appended unchanged when it is an absolute URL,
\* as <base> + href when it is root-relative, and as
\* <base>/rmrb/pc/layout/<YYYYMM>/<DD>/href otherwise.
C8_Normalization ==
    \A k \in 1..Len(pdf_urls) :
        pdf_urls[k] = ExpectedUrl(pageLog[k].href, base_url, date_str)

(***************************************************************************)
(* Properties of download_rmrb_pdf (Spec)                                  *)
(***************************************************************************)
RECURSIVE Flatten(_)
Flatten(ss) == IF ss = <<>> THEN <<>> ELSE Head(ss) \o Flatten(Tail(ss))

Returned == pc = "done" /\ result.kind # "running"

DownloadsDone == Len(dlLog) = Len(pdf_urls)

AllDownloadsOk ==
    DownloadsDone /\ \A k \in 1..Len(dlLog) : dlLog[k].status = "ok"

AllDownloadsFailed ==
    /\ pdf_urls # <<>> /\ DownloadsDone
    /\ \A k \in 1..Len(dlLog) : dlLog[k].status # "ok"

\* the pages of the PDFs that were downloaded, in the order of their URLs
DownloadedPages ==
    Flatten([k \in 1..Len(dlLog) |->
               IF dlLog[k].status = "ok"
               THEN [n \in 1..dlLog[k].np |-> <<k, n>>] ELSE <<>>])

\* number of pages merge_pdfs took from the file of URL k
PagesReadOf(k) ==
    IF \E r \in 1..Len(readLog) : readLog[r].file = k
    THEN readLog[CHOOSE r \in 1..Len(readLog) : readLog[r].file = k].read
    ELSE 0

\* the pages merge_pdfs read, in the order of the URLs
ReadPages ==
    Flatten([k \in 1..Len(dlLog) |->
               IF dlLog[k].status = "ok"
               THEN [n \in 1..PagesReadOf(k) |-> <<k, n>>] ELSE <<>>])

EveryFileRead == \A r \in 1..Len(readLog) : readLog[r].ok

NoDeletionFailed == \A r \in 1..Len(rmLog) : rmLog[r] = "ok"

MergeReturned == pc \in {"clean", "done"} /\ merged # None

\* storage/downloads/rmrb/rmrb_<date>.pdf
MergedPath(date) ==
    <<"s", "t", "o", "r", "a", "g", "e", "/", "d", "o", "w", "n", "l", "o", "a", "d", "s", "/">>
      \o <<"r", "m", "r", "b", "/", "r", "m", "r", "b", "_">> \o date \o <<".", "p", "d", "f">>

EndToEndResult ==
    /\ result = RetPath(MergedPath(date_str))
    /\ outFile.exists
    /\ outFile.pages = DownloadedPages
    /\ ~tempDir

\* C1 as stated: every page 1..N yields a link and every download succeeds;
\* then the merged file holds the pages of all N PDFs, its path is returned
\* and temp_pdfs_<date> is gone.
C1_EndToEndAsStated ==
    (Returned /\ page_count >= 1 /\ Len(pdf_urls) = page_count /\ AllDownloadsOk)
        => EndToEndResult

\* C1 amended: the same, for the runs in which merge_pdfs read every downloaded
\* file completely and returned True and no deletion call failed.
C1_EndToEnd ==
    (/\ Returned /\ page_count >= 1 /\ Len(pdf_urls) = page_count
     /\ AllDownloadsOk /\ EveryFileRead /\ merged = "True" /\ NoDeletionFailed)
        => EndToEndResult

C1_Witness ==
    /\ Returned /\ page_count = 2 /\ Len(pdf_urls) = 2 /\ AllDownloadsOk
    /\ EveryFileRead /\ merged = "True" /\ NoDeletionFailed
    /\ Len(outFile.pages) = 3 /\ result.kind = "path" /\ ~tempDir

\* C2 as stated: the merged output holds exactly the pages of the PDFs that
\* were downloaded, in URL order.
C2_OrderAsStated ==
    (MergeReturned /\ merged = "True") => outFile.pages = DownloadedPages

\* C2 amended: the merged output holds, in URL order, the pages merge_pdfs read
\* from the downloaded PDFs (all pages of a file read completely, the pages
\* before the failure of a file whose read failed), nothing for a failed URL.
C2_Order ==
    (MergeReturned /\ merged = "True") => outFile.pages = ReadPages

\* [u1, u2, u3] with u2 failing: u1's pages followed by u3's pages
C2_Witness ==
    /\ MergeReturned /\ merged = "True"
    /\ Len(pdf_urls) = 3 /\ DownloadsDone
    /\ dlLog[1].status = "ok" /\ dlLog[2].status = "get_failed"
    /\ dlLog[3].status = "ok"
    /\ EveryFileRead
    /\ outFile.pages = <<<<1, 1>>, <<1, 2>>, <<3, 1>>>>

\* C4: in a run that created temp_pdfs_<date>, and with no deletion call
\* failing, the directory and every file in it are gone when
\* download_rmrb_pdf has returned.
C4_TempRemoved ==
    (Returned /\ dirCreated /\ NoDeletionFailed)
        => (~tempDir /\ tempFiles = {})

\* C5: no PDF link at all, every download failing, or merge_pdfs failing to
\* write make download_rmrb_pdf return None without raising; a path is
\* returned only after merge_pdfs returned True.
C5_FailureReturnsNone ==
    Returned =>
        /\ (pdf_urls = <<>> \/ AllDownloadsFailed \/ merged = "False")
              => result = RetNone
        /\ result.kind = "path" => merged = "True"

C5_Witness ==
    /\ Returned /\ merged = "False" /\ outFile.exists /\ result = RetNone
    /\ Len(downloaded_files) = 2

\* the pages of the files merge_pdfs read completely, in file order
ReadableFilePages ==
    Flatten([r \in 1..Len(readLog) |->
               IF readLog[r].ok
               THEN [n \in 1..readLog[r].read |-> <<readLog[r].file, n>>]
               ELSE <<>>])

\* C10: with unreadable input files merge_pdfs still returns True when the
\* output can be written, and the output holds all pages of every readable file
\* in file order and no page of an unreadable one.
C10_SkipUnreadable ==
    (MergeReturned /\ merged = "True")
        => (outFile.exists /\ outFile.pages = ReadableFilePages)

(***************************************************************************)
(* Properties of note_for_rmrb.py (SpecNote)                               *)
(***************************************************************************)
\* the answer text of every fragment that carries answer text, in order
AnswerText == Flatten([k \in 1..Len(stream) |-> stream[k].content])

\* C3: extract_info returns the in-order concatenation of the answer text of
\* every fragment that carries answer text, and no reasoning text.
C3_Accumulation ==
    npc = "write_report" => mycontent = AnswerText

StreamFailed == npc = "end" /\ fault.at = "stream"

ReportUntouched == report \in {NoReport, OldReport}

\* C9 as stated: an exception of the stream is not retried, reaches the caller
\* of extract_info, ends the run as an unhandled fault, and no report is
\* written.
C9_UnhandledAsStated ==
    StreamFailed =>
        /\ fault.after = Len(stream)
        /\ runEnd = "unhandled"
        /\ ReportUntouched

\* C9 amended: an exception of the stream is not retried and reaches main,
\* whose except Exception clause catches it and prints an error message; no
\* report is written or overwritten.
C9_StreamFailure ==
    StreamFailed =>
        /\ fault.after = Len(stream)
        /\ runEnd = "error_message"
        /\ ReportUntouched

C9_Witness ==
    /\ StreamFailed /\ fault.kind = "Exception" /\ fault.after = 2
    /\ mycontent = T_hello /\ runEnd = "error_message" /\ report = OldReport

====
